---- MODULE Spec2Model ----
(***************************************************************************)
(* fastNLP core metrics: the Metric base class (fastNLP/core/metrics/     *)
(* metric.py) as a state machine.  One Metric instance lives on every     *)
(* process of a process group; the wrappers that __init__ installs around *)
(* update(), reset() and get_metric() are the operations.  Element and    *)
(* AutoBackend (element.py, backend.py) are modelled from the design      *)
(* document, the wrappers from the source.                                *)
(***************************************************************************)
EXTENDS Integers, Sequences, FiniteSets, TLC

\* ------------------------------------------------------------------ bounds
\* Processes of the process group of the distributed specification.
NProcs == 2
\* Largest local value an update() body accumulates into an Element.
MaxVal == 1
\* Largest initial value given to register_element.
MaxInit == 1
\* Length up to which a run of consecutive get_metric() calls is counted.
MaxRow == 2
\* Longest sequence of update() calls that is run, then replayed after reset().
MaxScript == 2
\* Largest device index given to initialize_paddle_driver.
MaxDev == 1
\* Longest device sequence given to initialize_paddle_driver.
MaxSeq == 2
\* Most get_metric() calls the program of one process makes.
MaxCalls == 2
\* Most epochs, and most batches per epoch, of a training run.
MaxEpochs == 3
MaxBatches == 3
\* Largest every_n_epochs and every_n_batches of a CheckpointCallback.
MaxEvery == 3

\* The runs of tests/core/callbacks/test_checkpoint_callback_torch.py: a dataset
\* of 50 samples in batches of 2, 10 epochs, a checkpoint every 123 batches, an
\* exception raised at the end of the epoch that makes cur_epoch_idx 4.
TestDataNum == 50
TestBatchSize == 2
TestEpochs == 10
TestEveryNBatches == 123
TestRaiseAt == 4

Procs == 1..NProcs
\* Names that may be registered as Elements (and used as attribute names).
Names == {"a", "b"}
\* Tensor ecosystems a value passed to update() may belong to.
Ecosystems == {"torch", "paddle"}
\* Aggregation methods given to register_element.
Methods == {"sum", "max", "min"}

VARIABLES
    world,      \* number of processes in the process group (1: single process)
    hint,       \* the backend argument the Metric was constructed with
    backend,    \* backend[p]: "auto" while unresolved, else the backend's name
    updated,    \* self._updated
    locked,     \* self._cannot_change_element
    aggFlag,    \* self.aggregate_when_get_metric
    order,      \* keys of self._elements in insertion order
    elem,       \* self._elements[n]: the Element registered under n
    attr,       \* instance attributes bound through __setattr__
    pc,         \* position of the process inside get_metric() or barrier()
    idx,        \* position of the loop of sync() over self.elements.items()
    keep,       \* keep_value of sync()
    ret,        \* how the most recent call on the process ended
    lastCall,   \* the later of the last update() call and the last reset() call
    lastEff,    \* the same, counting only update() calls that passed check_backend
    pre,        \* Element values when the get_metric() call in progress began
    row,        \* the run of consecutive get_metric() returns the process is in
    replay,     \* the caller's program: a sequence of update() calls run twice,
                \* or the get_metric() calls each process is to make
    drv,        \* a call of initialize_paddle_driver: its inputs, then its outcome
    trainer     \* a training run with a CheckpointCallback, and the folders it saved

vars == <<world, hint, backend, updated, locked, aggFlag, order, elem, attr,
          pc, idx, keep, ret, lastCall, lastEff, pre, row, replay, drv, trainer>>

\* The variables of the Metric.
metricVars == <<world, hint, backend, updated, locked, aggFlag, order, elem, attr,
                pc, idx, keep, ret, lastCall, lastEff, pre, row>>

\* ------------------------------------------------------------- value shapes
Absent == [k |-> "absent"]
Num(x) == [k |-> "num", v |-> x]
\* The Element object registered under name n of the same Metric.
ElemRef(n) == [k |-> "elem", of |-> n]

NoElem == [value |-> 0, init |-> 0, method |-> "none", backend |-> "none", hint |-> "none",
           device |-> "none"]
EmptyMap == [n \in {} |-> 0]
NoObs == [none |-> TRUE]
NoRow == [n |-> 0]
NoReplay == [run |-> 0]
NoDriverCall == [at |-> "none"]
\* No training run.
NoTrainer == [at |-> "none"]

Range(s) == {s[i] : i \in 1..Len(s)}
Registered(p) == Range(order[p])
\* The values of the registered Elements, as a mapping from name to value.
Values(p) == [n \in Registered(p) |-> elem[p][n].value]
ValuesOf(e, reg) == [n \in reg |-> e[n].value]

Outcome(op, out, obs) == [op |-> op, out |-> out, obs |-> obs]

\* ------------------------------------------------ Element and AutoBackend
\* AutoBackend(backend): the backend is specified at once unless the hint is 'auto'.
AutoBackendInit(h) == h
IsSpecified(b) == b # "auto"
\* choose_real_backend raises when the values belong to several ecosystems.
BackendConflict(ecos) == Cardinality(ecos) > 1
\* choose_real_backend: the one ecosystem found, or the plain-scalar backend.
ChooseRealBackend(ecos) ==
    IF ecos = {} THEN "numpy" ELSE CHOOSE b \in ecos : TRUE

\* Element.reset(): back to the initial value.
ElementReset(el) == [el EXCEPT !.value = el.init]
\* Element.get_scalar(): the host-side number held by the Element; the model's
\* values are small naturals, whose floating-point snapshot is the same number.
ElementGetScalar(el) == el.value
\* Element.fill_value(value): overwrite the current value.
ElementFillValue(el, v) == [el EXCEPT !.value = v]
\* Element.__iadd__: accumulate in place; the same object is returned.
ElementIAdd(el, d) == [el EXCEPT !.value = @ + d]

Max2(x, y) == IF x >= y THEN x ELSE y
Min2(x, y) == IF x <= y THEN x ELSE y
RECURSIVE ReduceOver(_, _, _)
\* all_reduce of the contributions c[q], q in the set S (not empty), with op.
ReduceOver(op, c, S) ==
    LET q == CHOOSE x \in S : TRUE
        rest == S \ {q}
    IN  IF rest = {} THEN c[q]
        ELSE LET r == ReduceOver(op, c, rest)
             IN  CASE op = "sum" -> c[q] + r
                   [] op = "max" -> Max2(c[q], r)
                   [] op = "min" -> Min2(c[q], r)
                   [] OTHER -> c[q]

Group == 1..world

\* ---------------------------------------------------------- Metric.__init__
\* The same constructor runs on every process.  ord, e and at are the Elements a
\* subclass constructor has registered by the time it returns (none for Metric
\* itself).
InitMetric(h, agg, ord, e, at) ==
    /\ hint = h
    /\ backend = [p \in Procs |-> AutoBackendInit(h)]
    /\ updated = [p \in Procs |-> FALSE]
    /\ aggFlag = [p \in Procs |-> agg]
    /\ locked = [p \in Procs |-> FALSE]
    /\ order = [p \in Procs |-> ord]
    /\ elem = [p \in Procs |-> e]
    /\ attr = [p \in Procs |-> at]
    /\ pc = [p \in Procs |-> "idle"]
    /\ idx = [p \in Procs |-> 0]
    /\ keep = [p \in Procs |-> EmptyMap]
    /\ ret = [p \in Procs |-> Outcome("__init__", "ok", NoObs)]
    /\ lastCall = [p \in Procs |-> "none"]
    /\ lastEff = [p \in Procs |-> "none"]
    /\ pre = [p \in Procs |-> EmptyMap]
    /\ row = [p \in Procs |-> NoRow]

Init ==
    /\ world = 1
    /\ replay = NoReplay
    /\ drv = NoDriverCall
    /\ trainer = NoTrainer
    /\ \E h \in {"auto", "torch"}, agg \in BOOLEAN :
          InitMetric(h, agg, << >>, [n \in Names |-> NoElem], [n \in Names |-> Absent])

\* ------------------------------------------------------- Metric.__setattr__
\* Faulty variants of the guard: any Element may be bound; nothing is guarded.
SetAttrRaises_AnyElement(isLocked, reg, key, value) ==
    isLocked /\ key \in reg /\ value.k # "elem"
SetAttrRaises_Never(isLocked, reg, key, value) == FALSE

\* The guard of __setattr__: TRUE when the assignment raises RuntimeError.
SetAttrRaises(isLocked, reg, key, value) ==
    isLocked /\ key \in reg /\ value # ElemRef(key)

SetAttr(p, key, value) ==
    /\ pc[p] = "idle"
    /\ IF SetAttrRaises(locked[p], Registered(p), key, value)
       THEN /\ ret' = [ret EXCEPT ![p] = Outcome("setattr", "RuntimeError", [key |-> key, value |-> value])]
            /\ UNCHANGED attr
       ELSE /\ attr' = [attr EXCEPT ![p][key] = value]
            /\ ret' = [ret EXCEPT ![p] = Outcome("setattr", "ok", [key |-> key, value |-> value])]
    /\ row' = [row EXCEPT ![p] = NoRow]
    /\ UNCHANGED <<world, hint, backend, updated, locked, aggFlag, order, elem,
                   pc, idx, keep, lastCall, lastEff, pre>>

\* -------------------------------------------------- Metric.register_element
\* Faulty variant: every Element gets an AutoBackend of its own.
ElementBackend_Fresh(b) == AutoBackendInit(b)

\* The backend handed to the new Element: the Metric's own AutoBackend object
\* for 'auto', a fresh AutoBackend otherwise.
ElementBackend(b) == IF b = "auto" THEN "metric" ELSE AutoBackendInit(b)

\* hint is the backend argument of register_element.
NewElement(v0, m, b) ==
    [value |-> v0, init |-> v0, method |-> m, backend |-> ElementBackend(b), hint |-> b,
     device |-> "cpu"]

\* The backend an Element computes with: that of the AutoBackend object it
\* holds, which is the Metric's own object when it was registered with 'auto'.
ElementBackendOf(p, n) ==
    IF elem[p][n].backend = "metric" THEN backend[p] ELSE elem[p][n].backend

\* Faulty variant: the name is not checked.
RegisterRaises_Never(reg, n) == FALSE

\* The assertion of register_element fails: the name is already registered.
RegisterRaises(reg, n) == n \in reg

RegisterElement(p, n, v0, m, b) ==
    /\ pc[p] = "idle"
    /\ IF RegisterRaises(Registered(p), n)
       THEN /\ ret' = [ret EXCEPT ![p] = Outcome("register_element", "AssertionError", [name |-> n])]
            /\ UNCHANGED <<order, elem, attr>>
       ELSE /\ elem' = [elem EXCEPT ![p][n] = NewElement(v0, m, b)]
            /\ order' = [order EXCEPT ![p] = Append(@, n)]
            \* setattr(self, name, element): the name is registered by now and the
            \* value is the Element stored under it, so __setattr__ never raises
            /\ ~SetAttrRaises(locked[p], Registered(p) \cup {n}, n, ElemRef(n))
            /\ attr' = [attr EXCEPT ![p][n] = ElemRef(n)]
            /\ ret' = [ret EXCEPT ![p] = Outcome("register_element", "ok", [name |-> n])]
    /\ row' = [row EXCEPT ![p] = NoRow]
    /\ UNCHANGED <<world, hint, backend, updated, locked, aggFlag,
                   pc, idx, keep, lastCall, lastEff, pre>>

\* ------------------------------------------------------------ Metric.update
\* Faulty variant: the backend is chosen anew on every call.
CheckBackend_Redetect(b, ecos) == ChooseRealBackend(ecos)

\* Metric.check_backend: the backend after the call (choose_real_backend runs
\* only while the backend is not specified).
CheckBackend(b, ecos) == IF IsSpecified(b) THEN b ELSE ChooseRealBackend(ecos)
\* Faulty variants: detection runs also once the backend is specified; a value
\* of an ecosystem other than the backend's is reported as a conflict.
CheckBackendRaises_Always(b, ecos) == BackendConflict(ecos)
CheckBackendRaises_Foreign(b, ecos) ==
    \/ ~IsSpecified(b) /\ BackendConflict(ecos)
    \/ IsSpecified(b) /\ ecos \ {b} # {}

\* TRUE when check_backend raises.
CheckBackendRaises(b, ecos) == ~IsSpecified(b) /\ BackendConflict(ecos)

\* Faulty variant: the keyword arguments are not looked at.
CollectArgs_ArgsOnly(args, kwargs) == args

\* The list _args of check_backend: the positional values, then the keyword
\* values; args and kwargs are the ecosystems of the tensors among them.
CollectArgs(args, kwargs) == args \cup kwargs

\* A subclass body statement `self.<n> += d`, run while the elements are locked:
\* the object bound to attribute n is accumulated in place, then the attribute is
\* assigned the result through __setattr__.
BodyAdd(e, at, reg, n, d) ==
    LET tgt == at[n]
    IN  IF tgt.k = "elem"
        THEN [elem |-> [e EXCEPT ![tgt.of] = ElementIAdd(@, d)],
              out |-> IF SetAttrRaises(TRUE, reg, n, tgt) THEN "RuntimeError" ELSE "ok"]
        ELSE [elem |-> e,
              out |-> IF SetAttrRaises(TRUE, reg, n, Num(tgt.v + d)) THEN "RuntimeError" ELSE "ok"]

\* What the body may accumulate: the object behind attribute n stays within MaxVal.
CanAdd(p, n, d) ==
    /\ n \in Registered(p)
    /\ attr[p][n].k = "elem" => elem[p][attr[p][n].of].value + d <= MaxVal

\* The bodies of update() the model runs: do nothing, raise, or `self.<n> += d`.
Bodies(p) ==
    {[kind |-> "pass"], [kind |-> "raise"]}
    \cup {[kind |-> "add", n |-> n, d |-> 1] : n \in {m \in Names : CanAdd(p, m, 1)}}

RunBody(e, at, reg, body) ==
    CASE body.kind = "pass" -> [elem |-> e, out |-> "ok"]
      [] body.kind = "raise" -> [elem |-> e, out |-> "BodyError"]
      [] body.kind = "add" -> BodyAdd(e, at, reg, body.n, body.d)

\* Faulty variant: the flags are not set before the body.
UpdateFlags_Late(b, u, l) == [backend |-> b, updated |-> u, locked |-> l]

\* The flags as _wrap_update leaves them before it calls the subclass body.
UpdateFlags(b, u, l) == [backend |-> b, updated |-> TRUE, locked |-> TRUE]

\* Faulty variant: the flags are set before check_backend is called.
UpdateAborted_FlagsSet(u, l) == [updated |-> TRUE, locked |-> TRUE]

\* The flags when check_backend has raised: the error leaves _wrap_update
\* before the assignments that follow the call.
UpdateAborted(u, l) == [updated |-> u, locked |-> l]

Update(p, args, kwargs, body) ==
    /\ pc[p] = "idle"
    /\ lastCall' = [lastCall EXCEPT ![p] = "update"]
    /\ row' = [row EXCEPT ![p] = NoRow]
    /\ LET ecos == CollectArgs(args, kwargs)
       IN  IF CheckBackendRaises(backend[p], ecos)
           THEN LET f == UpdateAborted(updated[p], locked[p])
                IN  /\ updated' = [updated EXCEPT ![p] = f.updated]
                    /\ locked' = [locked EXCEPT ![p] = f.locked]
                    /\ ret' = [ret EXCEPT ![p] = Outcome("update", "ConflictingBackendError",
                                  [args |-> args, kwargs |-> kwargs])]
                    /\ UNCHANGED <<backend, elem, lastEff>>
           ELSE LET f == UpdateFlags(CheckBackend(backend[p], ecos), updated[p], locked[p])
                    r == RunBody(elem[p], attr[p], Registered(p), body)
                IN  /\ backend' = [backend EXCEPT ![p] = f.backend]
                    /\ updated' = [updated EXCEPT ![p] = f.updated]
                    /\ locked' = [locked EXCEPT ![p] = f.locked]
                    /\ elem' = [elem EXCEPT ![p] = r.elem]
                    /\ lastEff' = [lastEff EXCEPT ![p] = "update"]
                    /\ ret' = [ret EXCEPT ![p] = Outcome("update", r.out,
                                  [args |-> args, kwargs |-> kwargs,
                                   resolved |-> IsSpecified(f.backend),
                                   updated |-> f.updated, locked |-> f.locked])]
    /\ UNCHANGED <<world, hint, aggFlag, order, attr, pc, idx, keep, pre>>

\* ------------------------------------------------------------- Metric.reset
\* Faulty variant: the Elements are left as they are.
ResetElements_Nothing(e, reg) == e

\* The loop of _wrap_reset over self.elements.values().
ResetElements(e, reg) ==
    [n \in Names |-> IF n \in reg THEN ElementReset(e[n]) ELSE e[n]]

\* Faulty variant: the hook is called first.
ResetBeforeHook_HookFirst(u, e, reg) == [updated |-> u, elem |-> e]

\* What _wrap_reset has done when it calls the subclass reset hook.
ResetBeforeHook(u, e, reg) == [updated |-> FALSE, elem |-> ResetElements(e, reg)]

Reset(p) ==
    /\ pc[p] = "idle"
    /\ LET s == ResetBeforeHook(updated[p], elem[p], Registered(p))
       IN  /\ updated' = [updated EXCEPT ![p] = s.updated]
           /\ elem' = [elem EXCEPT ![p] = s.elem]
           \* the hook of the base class is `pass`; it is handed the state above
           /\ ret' = [ret EXCEPT ![p] = Outcome("reset", "ok",
                         [updated |-> s.updated,
                          atInit |-> \A n \in Registered(p) : s.elem[n].value = s.elem[n].init])]
    /\ lastCall' = [lastCall EXCEPT ![p] = "reset"]
    /\ lastEff' = [lastEff EXCEPT ![p] = "reset"]
    /\ row' = [row EXCEPT ![p] = NoRow]
    /\ UNCHANGED <<world, hint, backend, locked, aggFlag, order, attr, pc, idx, keep, pre>>

\* -------------------------------- Metric.set_auto_aggregate_when_get_metric
SetAutoAggregate(p, flag) ==
    /\ pc[p] = "idle"
    /\ aggFlag' = [aggFlag EXCEPT ![p] = flag]
    /\ ret' = [ret EXCEPT ![p] = Outcome("set_auto_aggregate", "ok", [flag |-> flag])]
    /\ row' = [row EXCEPT ![p] = NoRow]
    /\ UNCHANGED <<world, hint, backend, updated, locked, order, elem, attr,
                   pc, idx, keep, lastCall, lastEff, pre>>

\* ---------------------------------------------------------------- Metric.to
\* element.to(device): the Element's tensor is moved; its value stays.
ElementTo(el, device) == [el EXCEPT !.device = device]

\* Faulty variant: moving the Elements makes them assignable again.
ToLock_Unlocks(l) == FALSE
\* What to() does to self._cannot_change_element: nothing.
ToLock(l) == l

\* The loop of to() over self.elements.values().
To(p, device) ==
    /\ pc[p] = "idle"
    /\ elem' = [elem EXCEPT ![p] =
                  [n \in Names |-> IF n \in Registered(p) THEN ElementTo(@[n], device) ELSE @[n]]]
    /\ locked' = [locked EXCEPT ![p] = ToLock(@)]
    /\ ret' = [ret EXCEPT ![p] = Outcome("to", "ok", [device |-> device])]
    /\ row' = [row EXCEPT ![p] = NoRow]
    /\ UNCHANGED <<world, hint, backend, updated, aggFlag, order, attr,
                   pc, idx, keep, lastCall, lastEff, pre>>

\* -------------------------------------------- Metric.get_metric, Metric.sync
\* Faulty variant: no assertion.
GetMetricAllowed_Always(u) == TRUE

\* The assertion of _wrap_get_metric.
GetMetricAllowed(u) == u

\* Faulty variant: sync() never aggregates.
SyncEntry_Skip(agg, ord) == "body"

\* Where sync() goes first: into its loop when it aggregates and there is an
\* Element, else straight to the yield.
SyncEntry(agg, ord) == IF agg /\ ord # << >> THEN "sync" ELSE "body"

\* Faulty variant: the loop stops after its first Element.
SyncAfter_First(i, ord) == "body"

\* After the Element at position i: the next Element, or the yield.
SyncAfter(i, ord) == IF i < Len(ord) THEN "sync" ELSE "body"

\* Faulty variant: the value is not kept.
Snapshot_Skip(kp, n, el) == kp

\* keep_value[name] = element.get_scalar()
Snapshot(kp, n, el) == kp @@ (n :> ElementGetScalar(el))

\* Faulty variant: nothing is restored.
Recover_Nothing(e, reg, kp, agg) == e

\* The recovery loop of sync() after the yield.
Recover(e, reg, kp, agg) ==
    IF agg
    THEN [n \in Names |->
            IF n \in reg /\ n \in DOMAIN kp THEN ElementFillValue(e[n], kp[n]) ELSE e[n]]
    ELSE e

\* The model's bound on the values a get_metric() call starts from.
InBounds(p) == \A n \in Registered(p) : elem[p][n].value <= MaxVal

GetMetricCall(p) ==
    /\ pc[p] = "idle"
    /\ InBounds(p)
    /\ IF ~GetMetricAllowed(updated[p])
       THEN /\ ret' = [ret EXCEPT ![p] = Outcome("get_metric", "AssertionError",
                                                    [pre |-> Values(p)])]
            /\ row' = [row EXCEPT ![p] = NoRow]
            /\ UNCHANGED <<pc, idx, keep, pre>>
       ELSE /\ pc' = [pc EXCEPT ![p] = SyncEntry(aggFlag[p], order[p])]
            /\ idx' = [idx EXCEPT ![p] = 1]
            /\ keep' = [keep EXCEPT ![p] = EmptyMap]
            /\ pre' = [pre EXCEPT ![p] = Values(p)]
            /\ ret' = [ret EXCEPT ![p] = Outcome("get_metric", "running", NoObs)]
            /\ UNCHANGED row
    /\ UNCHANGED <<world, hint, backend, updated, locked, aggFlag, order, elem, attr,
                   lastCall, lastEff>>

\* element.aggregate() with no peer: all_reduce is the identity.
ElementAggregateAlone(el) == el

\* Faulty variant: the Element is reset where it should aggregate.
SyncTurn_Reset(kp, n, el) == [keep |-> Snapshot(kp, n, el), el |-> ElementReset(el)]

\* One turn of the loop of sync() in a single process: keep_value gets the
\* snapshot, then the Element aggregates.
SyncTurn(kp, n, el) == [keep |-> Snapshot(kp, n, el), el |-> ElementAggregateAlone(el)]

\* One turn of the loop of sync(): the snapshot, then element.aggregate().  In a
\* single process aggregate() returns at once with the value as it is; in a
\* group the process has entered the collective and waits for its peers.
SyncStep(p) ==
    /\ pc[p] = "sync"
    /\ LET n == order[p][idx[p]]
           t == SyncTurn(keep[p], n, elem[p][n])
       IN  /\ keep' = [keep EXCEPT ![p] = t.keep]
           /\ IF world = 1
              THEN /\ elem' = [elem EXCEPT ![p][n] = t.el]
                   /\ pc' = [pc EXCEPT ![p] = SyncAfter(idx[p], order[p])]
                   /\ idx' = [idx EXCEPT ![p] = @ + 1]
              ELSE /\ pc' = [pc EXCEPT ![p] = "wait"]
                   /\ UNCHANGED <<idx, elem>>
    /\ UNCHANGED <<world, hint, backend, updated, locked, aggFlag, order, attr,
                   ret, lastCall, lastEff, pre, row>>

\* The value each process of the group has handed to the collective it waits in.
Contribution(q) == elem[q][order[q][idx[q]]].value

\* The collective completes: every process of the group has entered it, and each
\* leaves with the contributions reduced by its own Element's method.
AllReduce ==
    /\ world > 1
    /\ \A q \in Group : pc[q] = "wait"
    /\ elem' = [q \in Procs |->
                  IF q \in Group
                  THEN LET n == order[q][idx[q]]
                       IN  [elem[q] EXCEPT ![n].value =
                              ReduceOver(elem[q][n].method,
                                         [r \in Group |-> Contribution(r)], Group)]
                  ELSE elem[q]]
    /\ pc' = [q \in Procs |-> IF q \in Group THEN SyncAfter(idx[q], order[q]) ELSE pc[q]]
    /\ idx' = [q \in Procs |-> IF q \in Group THEN idx[q] + 1 ELSE idx[q]]
    /\ UNCHANGED <<world, hint, backend, updated, locked, aggFlag, order, attr, keep,
                   ret, lastCall, lastEff, pre, row, replay, drv, trainer>>

\* The run of consecutive get_metric() returns after one more return.
\* A run is made of calls that run the same subclass body.
NextRow(rw, body, res, before) ==
    IF rw.n > 0 /\ rw.body = body
    THEN [rw EXCEPT !.n = Min2(@ + 1, MaxRow)]
    ELSE [n |-> 1, body |-> body, res |-> res, vals |-> before]

\* The yield of sync(): the subclass get_metric body runs, then, when it has
\* returned, the recovery loop; an error raised by the body leaves the generator
\* of sync() at the yield.
GetMetricBody(p, body) ==
    /\ pc[p] = "body"
    /\ LET r == RunBody(elem[p], attr[p], Registered(p), body)
           res == ValuesOf(r.elem, Registered(p))
       IN  IF r.out = "ok"
           THEN /\ elem' = [elem EXCEPT ![p] = Recover(r.elem, Registered(p), keep[p], aggFlag[p])]
                /\ ret' = [ret EXCEPT ![p] = Outcome("get_metric", "ok",
                              [res |-> res, pre |-> pre[p], body |-> body])]
                /\ row' = [row EXCEPT ![p] = NextRow(@, body, res, pre[p])]
           ELSE /\ elem' = [elem EXCEPT ![p] = r.elem]
                /\ ret' = [ret EXCEPT ![p] = Outcome("get_metric", r.out,
                              [pre |-> pre[p]])]
                /\ row' = [row EXCEPT ![p] = NoRow]
    /\ pc' = [pc EXCEPT ![p] = "idle"]
    /\ idx' = [idx EXCEPT ![p] = 0]
    /\ keep' = [keep EXCEPT ![p] = EmptyMap]
    /\ pre' = [pre EXCEPT ![p] = EmptyMap]
    /\ UNCHANGED <<world, hint, backend, updated, locked, aggFlag, order, attr,
                   lastCall, lastEff>>

\* ------------------------------------------------------------ specifications
\* Values an attribute may be assigned: a plain number or a registered Element
\* (the Element registered first: the attribute's own Element for one name,
\* another Element for the other).
AttrValues(p) == {Num(0)} \cup {ElemRef(n) : n \in Registered(p) \cap {"a"}}

RegisterStep == \E p \in Group, n \in Names, v0 \in 0..MaxInit :
                   RegisterElement(p, n, v0, "sum", "auto") /\ UNCHANGED <<replay, drv, trainer>>
SetAttrStep == \E p \in Group, key \in Names : \E value \in AttrValues(p) :
                   SetAttr(p, key, value) /\ UNCHANGED <<replay, drv, trainer>>
UpdateStep == \E p \in Group, args \in SUBSET Ecosystems : \E body \in Bodies(p) :
                  Update(p, args, {}, body) /\ UNCHANGED <<replay, drv, trainer>>
ResetStep == \E p \in Group : Reset(p) /\ UNCHANGED <<replay, drv, trainer>>
SetAutoAggregateStep == \E p \in Group, flag \in BOOLEAN :
                            SetAutoAggregate(p, flag) /\ UNCHANGED <<replay, drv, trainer>>
GetMetricCallStep == \E p \in Group : GetMetricCall(p) /\ UNCHANGED <<replay, drv, trainer>>
SyncStepStep == \E p \in Group : SyncStep(p) /\ UNCHANGED <<replay, drv, trainer>>
GetMetricBodyStep == \E p \in Group : \E body \in Bodies(p) :
                         GetMetricBody(p, body) /\ UNCHANGED <<replay, drv, trainer>>

Next ==
    \/ RegisterStep
    \/ SetAttrStep
    \/ UpdateStep
    \/ ResetStep
    \/ SetAutoAggregateStep
    \/ GetMetricCallStep
    \/ SyncStepStep
    \/ GetMetricBodyStep

Spec == Init /\ [][Next]_vars

\* Backend resolution: a Metric of any backend argument, Elements registered
\* with and without a backend of their own, update() with positional and
\* keyword tensors of any ecosystems.
InitBackend ==
    /\ world = 1
    /\ replay = NoReplay
    /\ drv = NoDriverCall
    /\ trainer = NoTrainer
    /\ \E h \in {"auto"} \cup Ecosystems :
          InitMetric(h, TRUE, << >>, [n \in Names |-> NoElem], [n \in Names |-> Absent])

RegisterBackendStep == \E p \in Group, n \in Names, b \in {"auto"} \cup Ecosystems :
                           RegisterElement(p, n, 0, "sum", b) /\ UNCHANGED <<replay, drv, trainer>>
UpdateBackendStep == \E p \in Group, args \in SUBSET Ecosystems, kwargs \in SUBSET Ecosystems :
                         \E body \in Bodies(p) :
                             Update(p, args, kwargs, body) /\ UNCHANGED <<replay, drv, trainer>>

NextBackend ==
    \/ RegisterBackendStep
    \/ UpdateBackendStep
    \/ ResetStep
    \/ GetMetricCallStep
    \/ SyncStepStep
    \/ GetMetricBodyStep

SpecBackend == InitBackend /\ [][NextBackend]_vars

\* The process group: every process runs the same program, a Metric subclass
\* whose constructor registers its Elements, and aggregates on get_metric().
InitDist ==
    /\ world = NProcs
    /\ replay = NoReplay
    /\ drv = NoDriverCall
    /\ trainer = NoTrainer
    /\ \E ma \in Methods, mb \in Methods :
          InitMetric("auto", TRUE, <<"a", "b">>,
                     [n \in Names |-> NewElement(0, IF n = "a" THEN ma ELSE mb, "auto")],
                     [n \in Names |-> ElemRef(n)])

\* update() with plain (non-tensor) arguments and an accumulating body.
UpdateDist == \E p \in Group : \E body \in {b \in Bodies(p) : b.kind = "add"} :
                  Update(p, {}, {}, body) /\ UNCHANGED <<replay, drv, trainer>>
\* get_metric() bodies that read the Elements, or raise.
GetMetricBodyDist == \E p \in Group, body \in {[kind |-> "pass"], [kind |-> "raise"]} :
                         GetMetricBody(p, body) /\ UNCHANGED <<replay, drv, trainer>>

NextDist ==
    \/ UpdateDist
    \/ ResetStep
    \/ GetMetricCallStep
    \/ SyncStepStep
    \/ AllReduce
    \/ GetMetricBodyDist

SpecDist == InitDist /\ [][NextDist]_vars

\* The process group with aggregation switched by the program: the Metric is
\* constructed with aggregate_when_get_metric false, and each process may call
\* set_auto_aggregate_when_get_metric.
InitToggle ==
    /\ world = NProcs
    /\ replay = NoReplay
    /\ drv = NoDriverCall
    /\ trainer = NoTrainer
    /\ InitMetric("auto", FALSE, <<"a", "b">>,
                  [n \in Names |-> NewElement(0, "sum", "auto")],
                  [n \in Names |-> ElemRef(n)])

NextToggle ==
    \/ UpdateDist
    \/ ResetStep
    \/ SetAutoAggregateStep
    \/ GetMetricCallStep
    \/ SyncStepStep
    \/ AllReduce
    \/ GetMetricBodyDist

SpecToggle == InitToggle /\ [][NextToggle]_vars

\* Restart: a caller runs a sequence of update() calls and reads the metric,
\* calls reset(), then runs the same sequence and reads the metric again.
Calls ==
    [args : {{}, {"torch"}, {"torch", "paddle"}},
     body : {[kind |-> "pass"], [kind |-> "raise"], [kind |-> "add", n |-> "a", d |-> 1]}]
Scripts == UNION {[1..k -> Calls] : k \in 0..MaxScript}

\* What a get_metric() call gave its caller: the error, or the mapping returned.
Result(r) == [out |-> r.out, res |-> IF r.out = "ok" THEN r.obs.res ELSE NoObs]

InitReplay ==
    /\ world = 1
    /\ drv = NoDriverCall
    /\ trainer = NoTrainer
    /\ \E h \in {"auto", "torch"}, agg \in BOOLEAN :
          InitMetric(h, agg, <<"a">>,
                     [n \in Names |-> IF n = "a" THEN NewElement(0, "sum", "auto") ELSE NoElem],
                     [n \in Names |-> IF n = "a" THEN ElemRef(n) ELSE Absent])
    /\ \E sc \in Scripts, g \in {[kind |-> "pass"], [kind |-> "add", n |-> "a", d |-> 1]} :
          replay = [run |-> 1, script |-> sc, get |-> g, i |-> 1, at |-> "update",
                    conflict |-> FALSE, first |-> NoObs]

\* The next update() call of the sequence.
ReplayUpdate ==
    /\ replay.at = "update" /\ replay.i <= Len(replay.script)
    /\ LET c == replay.script[replay.i]
       IN  Update(1, c.args, {}, c.body)
    /\ replay' = [replay EXCEPT !.i = @ + 1,
                                !.conflict = @ \/ ret'[1].out = "ConflictingBackendError"]
    /\ UNCHANGED <<drv, trainer>>

\* The sequence is through: get_metric() is called.
ReplayGetMetric ==
    /\ replay.at = "update" /\ replay.i > Len(replay.script)
    /\ GetMetricCall(1)
    /\ replay' = [replay EXCEPT !.at = "get_metric"]
    /\ UNCHANGED <<drv, trainer>>

ReplaySync == replay.at = "get_metric" /\ SyncStep(1) /\ UNCHANGED <<replay, drv, trainer>>
ReplayBody == replay.at = "get_metric" /\ GetMetricBody(1, replay.get) /\ UNCHANGED <<replay, drv, trainer>>

\* The first get_metric() has ended: its result is kept, reset() is called and
\* the sequence starts again.
ReplayReset ==
    /\ replay.run = 1 /\ replay.at = "get_metric" /\ pc[1] = "idle"
    /\ Reset(1)
    /\ replay' = [replay EXCEPT !.run = 2, !.i = 1, !.at = "update", !.first = Result(ret[1])]
    /\ UNCHANGED <<drv, trainer>>

NextReplay ==
    \/ ReplayUpdate
    \/ ReplayGetMetric
    \/ ReplaySync
    \/ ReplayBody
    \/ ReplayReset

SpecReplay == InitReplay /\ [][NextReplay]_vars

\* -------------------------------------------------- initialize_paddle_driver
\* Values of the parameter `device`, by Python type.
DNone == [t |-> "none"]
DInt(k) == [t |-> "int", v |-> k]
DStr(x) == [t |-> "str", s |-> x]
\* A list or tuple; its items are DInt or DStr values.
DSeq(items) == [t |-> "seq", items |-> items]
\* A value that is neither an int, a sequence, a string nor None (a float).
DOther == [t |-> "other"]
\* The list that `list(set(device))` builds, by its members: the order in which
\* a set is iterated is not fixed by the language.
DList(S) == [t |-> "list", members |-> S]

\* An environment variable: unset, or set to a string, held as the pieces that
\* value.split(",") gives (the empty string splits into one empty piece).
EnvUnset == [set |-> FALSE]
EnvStr(pieces) == [set |-> TRUE, pieces |-> pieces]
IsEmptyString(e) == e.set /\ e.pieces = <<"">>

\* int(g) for a piece g of an environment variable: defined on digit strings.
IsIntPiece(g) == g \in {"0", "1", "2", "3"}
PieceInt(g) == CASE g = "0" -> 0 [] g = "1" -> 1 [] g = "2" -> 2 [] g = "3" -> 3

\* f"gpu:{device}"
GpuStr(k) ==
    CASE k = -1 -> "gpu:-1" [] k = 0 -> "gpu:0" [] k = 1 -> "gpu:1"
      [] k = 2 -> "gpu:2" [] k = 3 -> "gpu:3"

\* How a call ends: with an error, or with the Driver it constructed.  device is
\* the value handed to the Driver's constructor, warned the warnings logged.
Raised(err, warned) == [out |-> err, warned |-> warned]
\* PaddleSingleDriver(model, device): the single-device Driver.
PaddleSingleDriver(device, warned) ==
    [out |-> "PaddleSingleDriver", multi |-> FALSE, device |-> device,
     pulled |-> FALSE, warned |-> warned]
\* PaddleFleetDriver(model, device, is_pull_by_paddle_run): the multi-process Driver.
PaddleFleetDriver(device, pulled, warned) ==
    [out |-> "PaddleFleetDriver", multi |-> TRUE, device |-> device,
     pulled |-> pulled, warned |-> warned]

\* Faulty variant: `device` is checked before it is ignored.
InLaunch_Validates(in) ==
    LET warned == IF in.device.t # "none" THEN {"device_ignored"} ELSE {}
        cuda == in.cuda
    IN  IF in.device.t = "other" THEN Raised("ValueError", warned)
        ELSE IF ~cuda.set THEN Raised("KeyError", warned)
        ELSE IF \E i \in 1..Len(cuda.pieces) : ~IsIntPiece(cuda.pieces[i])
             THEN Raised("ValueError", warned)
             ELSE PaddleFleetDriver(DInt(PieceInt(cuda.pieces[1])), TRUE, warned)
\* Under paddle.distributed.launch: `device` is ignored with a warning and the
\* first entry of CUDA_VISIBLE_DEVICES is handed to a fleet Driver.
InLaunch(in) ==
    LET warned == IF in.device.t # "none" THEN {"device_ignored"} ELSE {}
        cuda == in.cuda
    IN  IF ~cuda.set THEN Raised("KeyError", warned)
        ELSE IF \E i \in 1..Len(cuda.pieces) : ~IsIntPiece(cuda.pieces[i])
             THEN Raised("ValueError", warned)
             ELSE PaddleFleetDriver(DInt(PieceInt(cuda.pieces[1])), TRUE, warned)

\* Faulty variant: every driver name is accepted.
DriverNameKnown_Any(name) == TRUE
DriverNameKnown(name) == name \in {"paddle", "fleet"}

\* _could_use_device_num: the user's variable unless it is the empty string,
\* else CUDA_VISIBLE_DEVICES unless it is unset, else the runtime's count.
\* None has no split(): an unset user variable ends the call.
CouldUseDeviceNum(in) ==
    IF ~IsEmptyString(in.user)
    THEN IF in.user.set THEN [ok |-> TRUE, n |-> Len(in.user.pieces)]
         ELSE [ok |-> FALSE, err |-> "AttributeError"]
    ELSE IF in.cuda.set THEN [ok |-> TRUE, n |-> Len(in.cuda.pieces)]
         ELSE [ok |-> TRUE, n |-> in.runtime]

\* The checks and conversions of `device` that precede the dispatch.
BadItem(x) == x.t # "int" \/ x.v < 0
NormalizeDevice(d) ==
    CASE d.t = "int" ->
            IF d.v < 0 /\ d.v # -1 THEN [ok |-> FALSE]
            ELSE [ok |-> TRUE, device |-> DStr(GpuStr(d.v))]
      [] d.t = "seq" ->
            IF \E i \in 1..Len(d.items) : BadItem(d.items[i]) THEN [ok |-> FALSE]
            ELSE LET S == {d.items[i].v : i \in 1..Len(d.items)}
                 IN  IF Cardinality(S) = 1
                     THEN [ok |-> TRUE, device |-> DInt(CHOOSE k \in S : TRUE)]
                     ELSE [ok |-> TRUE, device |-> DList(S)]
      [] d.t = "other" -> [ok |-> FALSE]
      [] OTHER -> [ok |-> TRUE, device |-> d]

\* Faulty variant: 'paddle' with a device list is not upgraded.
Dispatch_NoUpgrade(name, device) ==
    IF name = "paddle"
    THEN PaddleSingleDriver(device, {})
    ELSE IF device.t # "list"
         THEN IF device.t = "str" /\ device.s = "cpu"
              THEN Raised("ValueError", {})
              ELSE PaddleFleetDriver(device, FALSE, {"fleet_on_single_device"})
         ELSE PaddleFleetDriver(device, FALSE, {})

\* The dispatch on the driver name and on whether `device` is a list.
Dispatch(name, device) ==
    IF name = "paddle"
    THEN IF device.t # "list"
         THEN PaddleSingleDriver(device, {})
         ELSE PaddleFleetDriver(device, FALSE, {"upgraded_to_fleet"})
    ELSE IF device.t # "list"
         THEN IF device.t = "str" /\ device.s = "cpu"
              THEN Raised("ValueError", {})
              ELSE PaddleFleetDriver(device, FALSE, {"fleet_on_single_device"})
         ELSE PaddleFleetDriver(device, FALSE, {})

initialize_paddle_driver(in) ==
    IF in.launch THEN InLaunch(in)
    ELSE IF ~DriverNameKnown(in.driver) THEN Raised("ValueError", {})
    ELSE LET cnt == CouldUseDeviceNum(in)
             dev == NormalizeDevice(in.device)
         IN  IF ~cnt.ok THEN Raised(cnt.err, {})
             ELSE IF ~dev.ok THEN Raised("ValueError", {})
             ELSE Dispatch(in.driver, dev.device)

\* The inputs of a call.
DriverNames == {"paddle", "fleet", "torch"}
Items == {DInt(k) : k \in -1..MaxDev} \cup {DStr("x")}
Devices ==
    {DNone, DOther, DStr("cpu"), DStr("gpu:0")}
    \cup {DInt(k) : k \in -2..MaxDev}
    \cup {DSeq(q) : q \in UNION {[1..k -> Items] : k \in 0..MaxSeq}}
EnvValues == {EnvUnset, EnvStr(<<"">>), EnvStr(<<"1">>), EnvStr(<<"1", "0">>)}

InitDriver ==
    /\ world = 1
    /\ replay = NoReplay
    /\ trainer = NoTrainer
    /\ InitMetric("auto", TRUE, << >>, [n \in Names |-> NoElem], [n \in Names |-> Absent])
    /\ \E launch \in BOOLEAN, name \in DriverNames, device \in Devices,
          cuda \in EnvValues, user \in EnvValues, runtime \in 0..MaxDev + 1 :
          drv = [at |-> "called",
                 in |-> [launch |-> launch, driver |-> name, device |-> device,
                         cuda |-> cuda, user |-> user, runtime |-> runtime]]

\* What line 46-51 left in _could_use_device_num when the call ended; the call
\* does not get there under a launch or with an unknown driver name.
CountNotResolved == [ok |-> TRUE, reached |-> FALSE]
CountResolved(in) ==
    IF in.launch \/ ~DriverNameKnown(in.driver) THEN CountNotResolved
    ELSE [reached |-> TRUE] @@ CouldUseDeviceNum(in)

InitializeDriver ==
    /\ drv.at = "called"
    /\ drv' = [at |-> "returned", in |-> drv.in, res |-> initialize_paddle_driver(drv.in),
               count |-> CountResolved(drv.in)]
    /\ UNCHANGED <<metricVars, replay, trainer>>

NextDriver == InitializeDriver

SpecDriver == InitDriver /\ [][NextDriver]_vars

\* ------------------------------------------------- the Driver's collectives
\* is_distributed() of the Driver that was constructed.
IsDistributed(d) == d.multi
\* The processes of the Driver's group: one per device it was handed.
WorldSize(d) ==
    IF IsDistributed(d) /\ d.device.t = "list" THEN Cardinality(d.device.members) ELSE 1

\* The calls that construct the Drivers of the runs below.
BarrierCalls ==
    {[launch |-> FALSE, driver |-> name, device |-> device,
      cuda |-> EnvStr(<<"1", "0">>), user |-> EnvStr(<<"">>), runtime |-> 0] :
        name \in {"paddle", "fleet"},
        device \in {DInt(0), DSeq(<<DInt(0), DInt(1)>>)}}

\* A run: the Driver is constructed, then every process of its group runs the
\* same program over a Metric with two summed Elements.
InitBarrier ==
    /\ replay = NoReplay
    /\ trainer = NoTrainer
    /\ \E in \in BarrierCalls :
          /\ drv = [at |-> "returned", in |-> in, res |-> initialize_paddle_driver(in),
                    count |-> CountResolved(in)]
          /\ world = WorldSize(drv.res)
    /\ InitMetric("auto", TRUE, <<"a", "b">>,
                  [n \in Names |-> NewElement(0, "sum", "auto")],
                  [n \in Names |-> ElemRef(n)])

\* barrier(): a no-op on a Driver that is not distributed; on a distributed one
\* the process waits in the collective.
BarrierCall(p) ==
    /\ pc[p] = "idle"
    /\ IF IsDistributed(drv.res)
       THEN /\ pc' = [pc EXCEPT ![p] = "barrier"]
            /\ ret' = [ret EXCEPT ![p] = Outcome("barrier", "running", NoObs)]
       ELSE /\ ret' = [ret EXCEPT ![p] = Outcome("barrier", "ok", NoObs)]
            /\ UNCHANGED pc
    /\ UNCHANGED <<world, hint, backend, updated, locked, aggFlag, order, elem, attr,
                   idx, keep, lastCall, lastEff, pre, row, replay, drv, trainer>>

\* Every process of the group waits in the collective `at`.
Arrived(at) == \A q \in Group : pc[q] = at

\* The barrier completes: every process of the group has called it.
BarrierRelease ==
    /\ IsDistributed(drv.res)
    /\ Arrived("barrier")
    /\ pc' = [q \in Procs |-> IF pc[q] = "barrier" THEN "idle" ELSE pc[q]]
    /\ ret' = [q \in Procs |->
                 IF pc[q] = "barrier" THEN Outcome("barrier", "ok", NoObs) ELSE ret[q]]
    /\ UNCHANGED <<world, hint, backend, updated, locked, aggFlag, order, elem, attr,
                   idx, keep, lastCall, lastEff, pre, row, replay, drv, trainer>>

BarrierCallStep == \E p \in Group : BarrierCall(p)
\* get_metric() bodies that read the Elements.
GetMetricBodyPass == \E p \in Group :
                         GetMetricBody(p, [kind |-> "pass"]) /\ UNCHANGED <<replay, drv, trainer>>

NextBarrier ==
    \/ BarrierCallStep
    \/ BarrierRelease
    \/ UpdateDist
    \/ GetMetricCallStep
    \/ SyncStepStep
    \/ AllReduce
    \/ GetMetricBodyPass

SpecBarrier == InitBarrier /\ [][NextBarrier]_vars

\* ---------------------------------------------------- the lock on Elements
\* Every operation of the Metric on one process, with update() and get_metric()
\* bodies that leave the values alone: Elements are registered before and after
\* the first update(), and moved between devices.
TargetDevices == {"cpu", "cuda:0"}
LockRegisterStep == \E p \in Group, n \in Names :
                        RegisterElement(p, n, 0, "sum", "auto")
                        /\ UNCHANGED <<replay, drv, trainer>>
LockUpdateStep == \E p \in Group, args \in SUBSET Ecosystems :
                      \E body \in {[kind |-> "pass"], [kind |-> "raise"]} :
                          Update(p, args, {}, body) /\ UNCHANGED <<replay, drv, trainer>>
ToStep == \E p \in Group, device \in TargetDevices :
              To(p, device) /\ UNCHANGED <<replay, drv, trainer>>

NextLock ==
    \/ LockRegisterStep
    \/ SetAttrStep
    \/ LockUpdateStep
    \/ ResetStep
    \/ SetAutoAggregateStep
    \/ GetMetricCallStep
    \/ SyncStepStep
    \/ GetMetricBodyPass
    \/ ToStep

SpecLock == Init /\ [][NextLock]_vars

\* ------------------------------------------ Trainer.run, CheckpointCallback
\* ceil(a / b)
CeilDiv(a, b) == (a + b - 1) \div b
\* Batches per epoch on each process: the samples are split over the processes
\* and each share is cut into batches.
BatchesPerEpoch(w) == CeilDiv(CeilDiv(TestDataNum, w), TestBatchSize)

\* A checkpoint folder, by the parts of its name after '<object>-':
\* 'epoch_E', 'epoch_E-batch_G' or 'epoch_E-batch_G-exception_X'.
Folder(kind, epoch, batch, exc) ==
    [kind |-> kind, epoch |-> epoch, batch |-> batch, exc |-> exc]
EpochFolder(e) == Folder("epoch", e, 0, "")
BatchFolder(c, g) == Folder("batch", c, g, "")
ExceptionFolder(c, g, x) == Folder("exception", c, g, x)

\* A run: n_epochs E, B batches per epoch, CheckpointCallback(every_n_epochs = k,
\* every_n_batches = m, on_exceptions = onExc) where 0 and "" stand for None;
\* an on_train_epoch_end handler raises NotImplementedError when cur_epoch_idx
\* is raiseAt (never for 0).
Run(E, B, k, m, onExc, raiseAt) ==
    [E |-> E, B |-> B, k |-> k, m |-> m, onExc |-> onExc, raiseAt |-> raiseAt]
ExceptionClasses == {"NotImplementedError", "KeyboardInterrupt"}
SmallRuns ==
    {Run(E, B, k, m, x, r) :
        E \in 1..MaxEpochs, B \in 1..MaxBatches, k \in 0..MaxEvery, m \in 0..MaxEvery,
        x \in {"", "NotImplementedError"}, r \in {0, 2}}
    \cup {Run(2, 2, 0, 0, x, 1) : x \in ExceptionClasses}
TestRuns(w) ==
    {Run(TestEpochs, BatchesPerEpoch(w), k, TestEveryNBatches, "", 0) : k \in {1, 7}}
    \cup {Run(TestEpochs, BatchesPerEpoch(w), 0, 0, "NotImplementedError", TestRaiseAt)}

InitTrain ==
    /\ replay = NoReplay
    /\ drv = NoDriverCall
    /\ InitMetric("auto", TRUE, << >>, [n \in Names |-> NoElem], [n \in Names |-> Absent])
    /\ world \in 1..NProcs
    /\ \E cfg \in TestRuns(world) \cup (IF world = 1 THEN SmallRuns ELSE {}) :
          trainer = [at |-> "training", cfg |-> cfg, epoch |-> 0, batch |-> 0,
                     inEpoch |-> 0, folders |-> {}, raised |-> ""]

\* CheckpointCallback.on_train_batch_end: a folder every every_n_batches global
\* batches, named by cur_epoch_idx and global_forward_batches.
CheckpointOnBatchEnd(cfg, epoch, g) ==
    IF cfg.m # 0 /\ g % cfg.m = 0 THEN {BatchFolder(epoch, g)} ELSE {}

\* Faulty variant: a folder at the end of every epoch.
CheckpointOnEpochEnd_Every(cfg, epoch) == {EpochFolder(epoch)}
\* CheckpointCallback.on_train_epoch_end: a folder every every_n_epochs epochs.
CheckpointOnEpochEnd(cfg, epoch) ==
    IF cfg.k # 0 /\ epoch % cfg.k = 0 THEN {EpochFolder(epoch)} ELSE {}

\* Faulty variant: the folder is named by the epoch that was running.
CheckpointOnException_Before(cfg, epoch, g, x) ==
    IF cfg.onExc = x THEN {ExceptionFolder(epoch - 1, g, x)} ELSE {}
\* CheckpointCallback.on_exception: a folder when the exception is of the class
\* given as on_exceptions.
CheckpointOnException(cfg, epoch, g, x) ==
    IF cfg.onExc = x THEN {ExceptionFolder(epoch, g, x)} ELSE {}

\* One batch: global_forward_batches and batch_idx_in_epoch advance, then
\* on_train_batch_end.
TrainBatch ==
    /\ trainer.at = "training"
    /\ trainer.inEpoch < trainer.cfg.B
    /\ LET g == trainer.batch + 1
       IN  trainer' = [trainer EXCEPT
                          !.batch = g, !.inEpoch = @ + 1,
                          !.folders = @ \cup CheckpointOnBatchEnd(trainer.cfg, trainer.epoch, g)]
    /\ UNCHANGED <<metricVars, replay, drv>>

\* The end of an epoch: cur_epoch_idx advances, then on_train_epoch_end runs
\* the CheckpointCallback and the handler that may raise, in either order; an
\* exception goes through on_exception and out of Trainer.run().
TrainEpochEnd ==
    /\ trainer.at = "training"
    /\ trainer.inEpoch = trainer.cfg.B
    /\ LET e == trainer.epoch + 1
           cfg == trainer.cfg
           saved == CheckpointOnEpochEnd(cfg, e)
       IN  IF cfg.raiseAt = e
           THEN \E first \in {{}, saved} :
                   trainer' = [trainer EXCEPT
                      !.epoch = e, !.inEpoch = 0, !.at = "raised",
                      !.raised = "NotImplementedError",
                      !.folders = @ \cup first \cup
                          CheckpointOnException(cfg, e, trainer.batch, "NotImplementedError")]
           ELSE trainer' = [trainer EXCEPT
                      !.epoch = e, !.inEpoch = 0,
                      !.at = IF e = cfg.E THEN "ended" ELSE "training",
                      !.folders = @ \cup saved]
    /\ UNCHANGED <<metricVars, replay, drv>>

NextTrain ==
    \/ TrainBatch
    \/ TrainEpochEnd

SpecTrain == InitTrain /\ [][NextTrain]_vars

\* ------------------------------------------- get_metric() calls in a group
\* The training loop of each process calls get_metric() a number of times that
\* its own data decides; the core does not compare the numbers.
InitCalls ==
    /\ world = NProcs
    /\ drv = NoDriverCall
    /\ trainer = NoTrainer
    /\ \E quota \in [Procs -> 0..MaxCalls] :
          replay = [run |-> 0, quota |-> quota, calls |-> [p \in Procs |-> 0],
                    failed |-> FALSE]
    /\ InitMetric("auto", TRUE, <<"a", "b">>,
                  [n \in Names |-> NewElement(0, "sum", "auto")],
                  [n \in Names |-> ElemRef(n)])

\* The next get_metric() call of the program of p.
CallsGetMetric(p) ==
    /\ replay.calls[p] < replay.quota[p]
    /\ GetMetricCall(p)
    /\ replay' = [replay EXCEPT !.calls[p] = @ + 1,
                                 !.failed = @ \/ ~GetMetricAllowed(updated[p])]
    /\ UNCHANGED <<drv, trainer>>

\* The program of p has made all its get_metric() calls and the last has ended.
Finished(p) == replay.calls[p] = replay.quota[p] /\ pc[p] = "idle"

\* What the process p does next inside or between its get_metric() calls.
CallsProcess(p) ==
    \/ CallsGetMetric(p)
    \/ SyncStep(p) /\ UNCHANGED <<replay, drv, trainer>>
    \/ GetMetricBody(p, [kind |-> "pass"]) /\ UNCHANGED <<replay, drv, trainer>>

CallsStep == \E p \in Group : CallsProcess(p)

NextCalls ==
    \/ UpdateDist
    \/ ResetStep
    \/ CallsStep
    \/ AllReduce

\* Every process keeps running its program, and a collective that every process
\* of the group has entered completes.
SpecCalls ==
    /\ InitCalls /\ [][NextCalls]_vars
    /\ \A p \in Procs : WF_vars(CallsProcess(p))
    /\ WF_vars(AllReduce)

\* ------------------------------------------------------------------- claims
GetMetricReturned(p) ==
    pc[p] = "idle" /\ ret[p].op = "get_metric" /\ ret[p].out # "AssertionError"

\* C1, as stated: get_metric() passes its assertion exactly when the last
\* update() call came after the last reset() call.
C1_PassesIffLastCallIsUpdate ==
    \A p \in Group : ret[p].op = "get_metric" =>
        ((ret[p].out # "AssertionError") <=> (lastCall[p] = "update"))

\* C1, amended: get_metric() passes its assertion exactly when the last update()
\* call that passed backend resolution came after the last reset() call (and
\* there was one); when it fails the body has not run and no Element has been
\* snapshotted, aggregated or changed.
C1_PassesIffLastEffectiveUpdate ==
    \A p \in Group : ret[p].op = "get_metric" =>
        /\ (ret[p].out # "AssertionError") <=> (lastEff[p] = "update")
        /\ ret[p].out = "AssertionError" =>
              /\ pc[p] = "idle"
              /\ keep[p] = EmptyMap
              /\ Values(p) = ret[p].obs.pre

C1_Witness ==
    \E p \in Group :
        /\ ret[p].op = "get_metric" /\ ret[p].out = "AssertionError"
        /\ lastEff[p] = "reset" /\ locked[p]
        /\ \E n \in Registered(p) : elem[p][n].value > 0

\* C2: in a single process with aggregate_when_get_metric true, consecutive
\* get_metric() calls (running the same body) return the result of the first of
\* them, and after each the Elements hold the values from before the first.
C2_RepeatedGetMetric ==
    \A p \in Group :
        (world = 1 /\ aggFlag[p] /\ pc[p] = "idle" /\ row[p].n > 0) =>
            /\ ret[p].op = "get_metric" /\ ret[p].out = "ok"
            /\ ret[p].obs.res = row[p].res
            /\ Values(p) = row[p].vals

C2_Witness ==
    \E p \in Group :
        /\ world = 1 /\ aggFlag[p] /\ pc[p] = "idle"
        /\ row[p].n >= 2 /\ row[p].body.kind = "add"
        /\ row[p].res # row[p].vals

\* C3: after a get_metric() call made with aggregate_when_get_metric true,
\* whether the body returned or raised, every Element holds the value it had
\* before the call.
C3_QueryOnly ==
    \A p \in Group :
        (GetMetricReturned(p) /\ aggFlag[p]) => Values(p) = ret[p].obs.pre

\* The pre-call local values of process q are on record: q is in the body of its
\* call, or its call is the last thing it did.
SnapshotKnown(q) == pc[q] = "body" \/ GetMetricReturned(q)
LocalBefore(q) == IF pc[q] = "body" THEN pre[q] ELSE ret[q].obs.pre

\* C4: in a group whose processes all call get_metric() with aggregation on, the
\* body of each process reads, for every Element, the pre-call local values of
\* all processes reduced with the Element's method, and after the return the
\* process holds its own pre-call values again.  (The reduction is compared
\* while every peer's pre-call values are still on record.)
C4_GlobalThenLocal ==
    \A p \in Group :
        (world > 1 /\ aggFlag[p] /\ GetMetricReturned(p) /\ ret[p].out = "ok") =>
            /\ Values(p) = ret[p].obs.pre
            /\ (\A q \in Group : SnapshotKnown(q)) =>
                  \A n \in Registered(p) :
                      ret[p].obs.res[n] =
                          ReduceOver(elem[p][n].method,
                                     [q \in Group |-> LocalBefore(q)[n]], Group)

C4_Witness ==
    \E p \in Group :
        /\ world > 1 /\ aggFlag[p] /\ GetMetricReturned(p) /\ ret[p].out = "ok"
        /\ \A q \in Group : SnapshotKnown(q) /\ (q # p => LocalBefore(q) # LocalBefore(p))
        /\ \A n \in Registered(p) : ret[p].obs.res[n] # ret[p].obs.pre[n]

\* What the body returns when it is run on the pre-call values as they are,
\* with no synchronisation around it.
DirectResult(p) ==
    LET o == ret[p].obs
        e0 == [n \in Names |-> IF n \in Registered(p)
                               THEN [elem[p][n] EXCEPT !.value = o.pre[n]]
                               ELSE elem[p][n]]
    IN  ValuesOf(RunBody(e0, attr[p], Registered(p), o.body).elem, Registered(p))

\* C5: in a single process get_metric() returns, whatever the value of
\* aggregate_when_get_metric, what the body computes from the local values: the
\* result with aggregation on is the result with aggregation off.
C5_SingleProcessNoAdjustment ==
    \A p \in Group :
        (world = 1 /\ GetMetricReturned(p) /\ ret[p].out = "ok") =>
            ret[p].obs.res = DirectResult(p)

C5_Witness ==
    \E p \in Group :
        /\ world = 1 /\ aggFlag[p] /\ GetMetricReturned(p) /\ ret[p].out = "ok"
        /\ Cardinality(Registered(p)) = 2
        /\ \A n \in Registered(p) : ret[p].obs.res[n] > 0 /\ elem[p][n].init = 0

\* C6: when the body of update() starts, the backend is resolved and the
\* 'updated' and 'elements-locked' flags are set, and they are still set after
\* the call, also when the body raised.
C6_UpdateOrder ==
    \A p \in Group :
        (ret[p].op = "update" /\ ret[p].out # "ConflictingBackendError") =>
            /\ ret[p].obs.resolved /\ ret[p].obs.updated /\ ret[p].obs.locked
            /\ IsSpecified(backend[p]) /\ updated[p] /\ locked[p]

C6_Witness ==
    \E p \in Group :
        /\ ret[p].op = "update" /\ ret[p].out = "BodyError"
        /\ backend[p] = "paddle" /\ updated[p] /\ locked[p]

\* C7, as stated: once update() has been called, rebinding a registered name to
\* anything but its Element fails with RuntimeError.
C7_RebindFailsAfterUpdateCall ==
    \A p \in Group :
        (ret[p].op = "setattr" /\ lastCall[p] = "update"
         /\ ret[p].obs.key \in Registered(p)
         /\ ret[p].obs.value # ElemRef(ret[p].obs.key)) =>
            ret[p].out = "RuntimeError"

\* C7, amended: once an update() has passed backend resolution the elements are
\* locked, and from then on an assignment of anything but its Element to a
\* registered name fails with RuntimeError and leaves the attributes and the
\* mapping as they were, while an assignment to a name that is not registered
\* succeeds.
C7_RebindFailsWhenLocked ==
    [][\A p \in Group :
          /\ lastEff'[p] = "update" => locked'[p]
          /\ (ret'[p].op = "setattr" /\ ret'[p] # ret[p] /\ locked[p]) =>
                LET k == ret'[p].obs.key
                    v == ret'[p].obs.value
                IN  /\ (k \in Registered(p) /\ v # ElemRef(k)) =>
                          /\ ret'[p].out = "RuntimeError"
                          /\ attr'[p] = attr[p]
                          /\ order'[p] = order[p]
                          /\ elem'[p] = elem[p]
                    /\ k \notin Registered(p) =>
                          /\ ret'[p].out = "ok"
                          /\ attr'[p][k] = v
      ]_vars

C7_Witness ==
    \E p \in Group :
        /\ locked[p] /\ Registered(p) = {"a", "b"}
        /\ ret[p] = Outcome("setattr", "RuntimeError", [key |-> "b", value |-> ElemRef("a")])
        /\ attr[p]["b"] = ElemRef("b")

\* C8: register_element with a registered name fails (the assertion of
\* register_element; DuplicateNameError in the design document) and leaves the
\* mapping, the Element registered first, its value and the attribute as they
\* were; with a new name it succeeds.
C8_DuplicateNameRejected ==
    [][\A p \in Group :
          (ret'[p].op = "register_element" /\ ret'[p] # ret[p]) =>
              LET n == ret'[p].obs.name
              IN  IF n \in Registered(p)
                  THEN /\ ret'[p].out = "AssertionError"
                       /\ order'[p] = order[p]
                       /\ elem'[p] = elem[p]
                       /\ attr'[p] = attr[p]
                  ELSE /\ ret'[p].out = "ok"
                       /\ order'[p] = Append(order[p], n)
      ]_vars

C8_Witness ==
    \E p \in Group :
        /\ ret[p] = Outcome("register_element", "AssertionError", [name |-> "a"])
        /\ elem[p]["a"].init = 0 /\ elem[p]["a"].value = 1
        /\ attr[p]["a"] = ElemRef("a")

\* C9, as stated: the attribute of every registered name is the Element stored
\* under that name.
C9_AttributeIsElement ==
    \A p \in Group : \A n \in Registered(p) : attr[p][n] = ElemRef(n)

\* C9, amended: register_element binds the attribute of the new name to the
\* Element it stores under it, and the attribute of a registered name stops
\* being that Element only by an assignment to it made while the elements are
\* not locked (before the first update() that passes backend resolution).
C9_BindingBrokenOnlyBeforeLock ==
    [][\A p \in Group : \A n \in Names :
          /\ (n \notin Registered(p) /\ n \in Registered(p)') => attr'[p][n] = ElemRef(n)
          /\ (n \in Registered(p) /\ attr[p][n] = ElemRef(n) /\ attr'[p][n] # ElemRef(n)) =>
                /\ ~locked[p]
                /\ ret'[p].op = "setattr" /\ ret'[p].out = "ok" /\ ret'[p].obs.key = n
      ]_vars

C9_Witness ==
    \E p \in Group :
        /\ locked[p] /\ Registered(p) = {"a", "b"}
        /\ \A n \in Registered(p) : attr[p][n] = ElemRef(n)
        /\ ret[p] = Outcome("setattr", "RuntimeError", [key |-> "a", value |-> Num(0)])

\* C10: when the subclass reset hook is called, and when reset() has returned,
\* every registered Element holds its initial value and 'updated' is false.
C10_ResetBeforeHook ==
    \A p \in Group :
        ret[p].op = "reset" =>
            /\ ~ret[p].obs.updated /\ ret[p].obs.atInit
            /\ ~updated[p]
            /\ \A n \in Registered(p) : elem[p][n].value = elem[p][n].init

C10_Witness ==
    \E p \in Group :
        /\ ret[p].op = "reset" /\ locked[p] /\ lastCall[p] = "reset"
        /\ \E n \in Registered(p) : elem[p][n].init = 1
        /\ \E n \in Registered(p) : elem[p][n].init = 0

\* The ecosystems of the tensors an update() call was given.
CallEcos(o) == o.args \cup o.kwargs
\* The step is an update() call on p that has just ended.
UpdateEnded(p) == ret'[p].op = "update" /\ ret'[p] # ret[p]

\* C11: once the backend is resolved no call changes it or makes it unresolved
\* again, and reset() leaves the Metric not updated with the backend it had.
C11_ResolvedOnce ==
    [][\A p \in Group :
          /\ IsSpecified(backend[p]) => backend'[p] = backend[p]
          /\ (ret'[p].op = "reset" /\ lastCall'[p] = "reset") =>
                ~updated'[p] /\ backend'[p] = backend[p]
      ]_vars

C11_Witness ==
    \E p \in Group :
        /\ hint = "auto" /\ backend[p] = "paddle" /\ ~updated[p] /\ locked[p]
        /\ ret[p].op = "reset"
        /\ \E n \in Registered(p) : elem[p][n].hint = "auto"

\* C12, as stated: on a Metric of backend 'auto' that an earlier update() has
\* resolved to one ecosystem, an update() given tensors of another ecosystem
\* raises ConflictingBackendError.
C12_LaterEcosystemRaises ==
    \A p \in Group :
        (hint = "auto" /\ ret[p].op = "update" /\ backend[p] \in Ecosystems
         /\ CallEcos(ret[p].obs) \ {backend[p]} # {}) =>
            ret[p].out = "ConflictingBackendError"

\* C12, amended: update() raises ConflictingBackendError exactly when the
\* backend is not yet resolved and the values of that one call belong to more
\* than one ecosystem; once an earlier call has resolved the backend a later
\* call with tensors of another ecosystem does not raise it.
C12_RaisesOnlyWhileUnresolved ==
    [][\A p \in Group :
          UpdateEnded(p) =>
              ((ret'[p].out = "ConflictingBackendError") <=>
                  (~IsSpecified(backend[p]) /\ Cardinality(CallEcos(ret'[p].obs)) > 1))
      ]_vars

C12_Witness ==
    \E p \in Group :
        /\ hint = "auto" /\ backend[p] = "torch"
        /\ ret[p].op = "update" /\ ret[p].out = "ok"
        /\ ret[p].obs.args = {"paddle"} /\ ret[p].obs.kwargs = {}

\* C13: an update() on a Metric of unresolved backend whose values belong to
\* several ecosystems raises ConflictingBackendError and changes nothing: the
\* backend stays unresolved, both flags, every Element, the mapping and the
\* attributes are as before (the body has not run).
C13_ConflictHasNoEffect ==
    [][\A p \in Group :
          (UpdateEnded(p) /\ ~IsSpecified(backend[p])
           /\ Cardinality(CallEcos(ret'[p].obs)) > 1) =>
              /\ ret'[p].out = "ConflictingBackendError"
              /\ backend'[p] = backend[p]
              /\ updated'[p] = updated[p] /\ locked'[p] = locked[p]
              /\ elem'[p] = elem[p] /\ order'[p] = order[p] /\ attr'[p] = attr[p]
      ]_vars

C13_Witness ==
    \E p \in Group :
        /\ ret[p].op = "update" /\ ret[p].out = "ConflictingBackendError"
        /\ ret[p].obs.args = {"torch"} /\ ret[p].obs.kwargs = {"paddle"}
        /\ backend[p] = "auto" /\ ~updated[p] /\ ~locked[p]
        /\ Registered(p) = {"a", "b"}

\* C14: on a Metric constructed with 'auto', the update() that finds the
\* backend unresolved resolves it from the positional and keyword values of
\* the call: to the one ecosystem present, or to the plain-scalar backend when
\* there is no tensor.
C14_ResolvedFromArguments ==
    [][\A p \in Group :
          (UpdateEnded(p) /\ ~IsSpecified(backend[p])) =>
              LET ecos == CallEcos(ret'[p].obs)
              IN  /\ ecos = {} => backend'[p] = "numpy"
                  /\ \A A \in Ecosystems : ecos = {A} => backend'[p] = A
      ]_vars

C14_Witness ==
    \E p \in Group :
        /\ hint = "auto" /\ backend[p] = "paddle"
        /\ ret[p].op = "update" /\ ret[p].out = "ok"
        /\ ret[p].obs.args = {} /\ ret[p].obs.kwargs = {"paddle"}

\* C15: a Metric constructed with an explicit backend name has that backend
\* from construction on, and no update() raises ConflictingBackendError on it.
C15_ExplicitBackendKept ==
    \A p \in Group :
        hint # "auto" =>
            /\ backend[p] = hint
            /\ ret[p].op = "update" => ret[p].out # "ConflictingBackendError"

C15_Witness ==
    \E p \in Group :
        /\ hint = "torch" /\ backend[p] = "torch"
        /\ ret[p].op = "update" /\ ret[p].out = "ok"
        /\ ret[p].obs.args = {"torch", "paddle"}

\* C16, as stated: when an update() resolves the backend, every Element
\* registered before has the resolved backend.
C16_AllElementsBound ==
    [][\A p \in Group :
          (~IsSpecified(backend[p]) /\ IsSpecified(backend'[p])) =>
              \A n \in Registered(p) : ElementBackendOf(p, n)' = backend'[p]
      ]_vars

\* C16, amended: an Element registered with backend 'auto' has the Metric's
\* backend at all times, so the update() that resolves the Metric's backend
\* binds it too; an Element registered with a backend name keeps that backend.
C16_AutoElementsBound ==
    \A p \in Group : \A n \in Registered(p) :
        IF elem[p][n].hint = "auto"
        THEN ElementBackendOf(p, n) = backend[p]
        ELSE ElementBackendOf(p, n) = elem[p][n].hint

C16_Witness ==
    \E p \in Group :
        /\ hint = "auto" /\ backend[p] = "torch" /\ ret[p].op = "update"
        /\ Registered(p) = {"a", "b"}
        /\ elem[p]["a"].hint = "auto" /\ elem[p]["b"].hint = "paddle"

\* The second get_metric() of a restart has ended.
ReplayEnded == replay.run = 2 /\ replay.at = "get_metric" /\ pc[1] = "idle"

C18_FlagDecides ==
    [][\A p \in Group :
          /\ (ret'[p].op = "set_auto_aggregate" /\ ret'[p] # ret[p]) =>
                /\ aggFlag'[p] = ret'[p].obs.flag
                /\ elem'[p] = elem[p] /\ backend'[p] = backend[p] /\ updated'[p] = updated[p]
          /\ ~aggFlag[p] =>
                /\ pc'[p] \notin {"sync", "wait"} /\ keep'[p] = EmptyMap
                /\ (pc[p] = "body" /\ pc'[p] = "idle") => Values(p)' = pre[p]
          /\ aggFlag[p] =>
                /\ (pc[p] = "idle" /\ pc'[p] # "idle") => pc'[p] = "sync"
                /\ (pc[p] # "body" /\ pc'[p] = "body") => DOMAIN keep'[p] = Registered(p)
                /\ (pc[p] = "body" /\ pc'[p] = "idle") => Values(p)' = pre[p]
      ]_vars

\* A call of initialize_paddle_driver made outside a distributed launch has
\* returned or raised.
CalledOutsideLaunch == drv.at = "returned" /\ ~drv.in.launch

\* Device specifications as the caller gives them: one device (an integer that
\* is -1 or not negative, or a string), or several (a sequence of integers that
\* are not negative, at least two of them distinct).
SingleDevice(d) == (d.t = "int" /\ d.v >= -1) \/ d.t = "str"
IsCpu(d) == d.t = "str" /\ d.s = "cpu"
MultiDevice(d) ==
    /\ d.t = "seq"
    /\ \A i \in 1..Len(d.items) : ~BadItem(d.items[i])
    /\ Cardinality({d.items[i].v : i \in 1..Len(d.items)}) >= 2

\* C19: outside a distributed launch the outcome follows the dispatch table:
\* 'paddle' with one device or none gives the single-device Driver with no
\* warning, 'paddle' with several devices the multi-process Driver with the
\* upgrade warning, 'fleet' with one device other than 'cpu' the multi-process
\* Driver with a warning, 'fleet' with several devices the multi-process Driver
\* with no warning.
C19_DispatchTable ==
    CalledOutsideLaunch =>
        LET d == drv.in.device
            r == drv.res
        IN  /\ (drv.in.driver = "paddle" /\ (SingleDevice(d) \/ d.t = "none")) =>
                  r.out = "PaddleSingleDriver" /\ r.warned = {}
            /\ (drv.in.driver = "paddle" /\ MultiDevice(d)) =>
                  r.out = "PaddleFleetDriver" /\ r.warned = {"upgraded_to_fleet"}
            /\ (drv.in.driver = "fleet" /\ SingleDevice(d) /\ ~IsCpu(d)) =>
                  r.out = "PaddleFleetDriver" /\ r.warned = {"fleet_on_single_device"}
            /\ (drv.in.driver = "fleet" /\ MultiDevice(d)) =>
                  r.out = "PaddleFleetDriver" /\ r.warned = {}

\* C20: outside a distributed launch 'fleet' with device 'cpu' raises ValueError
\* (no Driver is constructed), and 'paddle' with device 'cpu' gives the
\* single-device Driver.
C20_FleetCpuRejected ==
    (CalledOutsideLaunch /\ IsCpu(drv.in.device)) =>
        /\ drv.in.driver = "fleet" => drv.res.out = "ValueError"
        /\ drv.in.driver = "paddle" => drv.res.out = "PaddleSingleDriver"

\* C21, as stated: a call whose driver name is neither 'paddle' nor 'fleet'
\* raises ValueError, whatever the device specification.
C21_UnknownNameRaises ==
    (drv.at = "returned" /\ ~(drv.in.driver \in {"paddle", "fleet"})) =>
        drv.res.out = "ValueError"

\* C21, amended: outside a distributed launch a call whose driver name is
\* neither 'paddle' nor 'fleet' raises ValueError with no warning, whatever
\* the device specification and the environment variables (under a launch the
\* name is not looked at).
C21_UnknownNameRaisesOutsideLaunch ==
    (CalledOutsideLaunch /\ ~(drv.in.driver \in {"paddle", "fleet"})) =>
        drv.res = Raised("ValueError", {})

C21_Witness ==
    /\ CalledOutsideLaunch /\ drv.in.driver = "torch"
    /\ drv.in.device = DSeq(<<DInt(0), DInt(1)>>)
    /\ ~drv.in.user.set /\ ~drv.in.cuda.set
    /\ drv.res.out = "ValueError"

\* CUDA_VISIBLE_DEVICES holds a comma-separated list of integers.
VisibleListGiven(e) == e.set /\ \A i \in 1..Len(e.pieces) : IsIntPiece(e.pieces[i])
\* The warnings of a call under a launch: one exactly when `device` is given.
LaunchWarning(d) == IF d = DNone THEN {} ELSE {"device_ignored"}

\* C22, as stated: under a distributed launch the call always returns a
\* multi-process Driver whose device is the first entry of the visible-device
\* list, whatever `device` is, with a warning exactly when `device` is given.
C22_LaunchAlwaysFleet ==
    (drv.at = "returned" /\ drv.in.launch) =>
        /\ drv.res.out = "PaddleFleetDriver"
        /\ drv.res.warned = LaunchWarning(drv.in.device)

\* C22, amended: under a distributed launch whose CUDA_VISIBLE_DEVICES is a
\* comma-separated list of integers the call returns a multi-process Driver
\* marked as pulled up by the launcher, whose device is the first entry of the
\* list, whatever `device` and the driver name are; without such a list the
\* call raises KeyError (variable unset) or ValueError (an entry that is not an
\* integer).  In both cases the warning is logged exactly when `device` is given.
C22_LaunchFleetFromVisibleList ==
    (drv.at = "returned" /\ drv.in.launch) =>
        /\ drv.res.warned = LaunchWarning(drv.in.device)
        /\ IF VisibleListGiven(drv.in.cuda)
           THEN /\ drv.res.out = "PaddleFleetDriver" /\ drv.res.multi /\ drv.res.pulled
                /\ drv.res.device = DInt(PieceInt(drv.in.cuda.pieces[1]))
           ELSE drv.res.out = IF drv.in.cuda.set THEN "ValueError" ELSE "KeyError"

C22_Witness ==
    /\ drv.at = "returned" /\ drv.in.launch
    /\ drv.in.device = DOther /\ drv.in.driver = "torch"
    /\ drv.in.cuda = EnvStr(<<"1", "0">>)
    /\ drv.res = PaddleFleetDriver(DInt(1), TRUE, {"device_ignored"})

\* An environment variable that names devices: set, and not to the empty string.
NamesDevices(e) == e.set /\ ~IsEmptyString(e)

\* C24: outside a distributed launch the visible-device count is that of
\* USER_CUDA_VISIBLE_DEVICES when it is set, else that of CUDA_VISIBLE_DEVICES
\* when it is set, else the count the runtime reports, for every combination of
\* set and unset variables, and resolving it never ends the call.
C24_CountPrecedence ==
    (CalledOutsideLaunch /\ drv.in.driver \in {"paddle", "fleet"}) =>
        /\ drv.count.reached /\ drv.count.ok
        /\ drv.res.out \in {"PaddleSingleDriver", "PaddleFleetDriver", "ValueError"}
        /\ drv.count.n =
              IF NamesDevices(drv.in.user) THEN Len(drv.in.user.pieces)
              ELSE IF drv.in.cuda.set THEN Len(drv.in.cuda.pieces)
              ELSE drv.in.runtime


\* The device specifications C23 calls invalid, and the ones it calls valid.
InvalidDevice(d) ==
    \/ d.t = "int" /\ d.v < 0 /\ d.v # -1
    \/ d.t = "seq" /\ \E i \in 1..Len(d.items) : BadItem(d.items[i])
    \/ d.t = "other"
ValidDevice(d) ==
    \/ d.t = "int" /\ d.v >= -1
    \/ d.t \in {"str", "none"}
    \/ d.t = "seq" /\ \A i \in 1..Len(d.items) : ~BadItem(d.items[i])

\* C23: outside a distributed launch (driver name 'paddle' or 'fleet') an
\* invalid device specification ends the call with ValueError and no Driver,
\* and a valid one passes the checks: the call gets to the dispatch, which
\* constructs a Driver (or rejects 'cpu' for 'fleet').
C23_DeviceValidated ==
    (CalledOutsideLaunch /\ drv.in.driver \in {"paddle", "fleet"}) =>
        /\ InvalidDevice(drv.in.device) => drv.res.out = "ValueError"
        /\ ValidDevice(drv.in.device) =>
              IF drv.in.driver = "fleet" /\ IsCpu(drv.in.device)
              THEN drv.res.out = "ValueError"
              ELSE drv.res.out \in {"PaddleSingleDriver", "PaddleFleetDriver"}

\* The device specification is a non-empty sequence whose entries are all the
\* integer k.
AllEntries(d, k) ==
    d.t = "seq" /\ Len(d.items) >= 1 /\ \A i \in 1..Len(d.items) : d.items[i] = DInt(k)

C30_FleetListHasTwoDevices ==
    CalledOutsideLaunch =>
        /\ (drv.res.out = "PaddleFleetDriver" /\ drv.res.device.t = "list") =>
              /\ Cardinality(drv.res.device.members) >= 2
              /\ \A k \in drv.res.device.members : k >= 0
        /\ drv.in.device = DSeq(<< >>) => drv.res.out # "PaddleFleetDriver"

\* C25: on a distributed Driver no process leaves barrier(), or a collective
\* aggregate, unless every process of its group has entered that collective;
\* on a Driver that is not distributed barrier() returns at once and no process
\* ever waits in it; the Driver built for ('paddle', [0, 1]) is distributed over
\* two processes, and its barrier can complete as soon as both have called it.
C25_BarrierWaitsForGroup ==
    /\ [][\A p \in Group :
            (pc[p] \in {"barrier", "wait"} /\ pc'[p] # pc[p]) =>
                /\ IsDistributed(drv.res)
                /\ \A q \in Group : pc[q] = pc[p]
                /\ pc[p] = "barrier" => \A q \in Group : ret'[q] = Outcome("barrier", "ok", NoObs)
         ]_vars
    /\ [](~IsDistributed(drv.res) =>
            \A p \in Group :
                /\ pc[p] # "barrier"
                /\ ret[p].op = "barrier" => ret[p].out = "ok")
    /\ []((drv.in.driver = "paddle" /\ drv.in.device = DSeq(<<DInt(0), DInt(1)>>)) =>
            /\ drv.res.out = "PaddleFleetDriver" /\ IsDistributed(drv.res)
            /\ world = 2
            /\ (\A q \in Group : pc[q] = "barrier") => ENABLED BarrierRelease)

C25_Witness ==
    /\ drv.in.driver = "paddle" /\ drv.in.device = DSeq(<<DInt(0), DInt(1)>>)
    /\ IsDistributed(drv.res) /\ world = 2
    /\ \A q \in Group : ret[q] = Outcome("barrier", "ok", NoObs) /\ pc[q] = "idle"
    /\ \A q \in Group : updated[q]

\* Every process is to make the same number of get_metric() calls.
SameCalls == \A p, q \in Group : replay.quota[p] = replay.quota[q]
\* Every process has made its calls and every call has ended.
AllFinished == \A p \in Group : Finished(p)
\* The processes that wait in a collective contribute the same Element.
SameElement ==
    \A p, q \in Group :
        (pc[p] = "wait" /\ pc[q] = "wait") => order[p][idx[p]] = order[q][idx[q]]
\* A process that waits in a collective while a peer has finished its program
\* stays there.
BlockedForever ==
    [][\A p \in Group :
          (pc[p] = "wait" /\ \E q \in Group : Finished(q)) => pc'[p] = "wait"
      ]_vars

\* C26, as stated: when every process makes the same number of get_metric()
\* calls, every call eventually returns on every process; processes waiting in
\* a collective contribute the same Element; a process whose peer has made
\* fewer calls and has finished waits forever.
C26_EqualCallsReturn ==
    /\ SameCalls => <>AllFinished
    /\ []SameElement
    /\ BlockedForever

\* C26, amended: the same, provided no get_metric() call fails the assertion
\* that update() has been called: a call that fails it ends at once without
\* entering a collective, and counts as a missing call for the peers.  Every
\* call that gets to its body has reduced every registered Element.
C26_EqualSyncedCallsReturn ==
    /\ SameCalls => <>(AllFinished \/ replay.failed)
    /\ []SameElement
    /\ [](\A p \in Group : pc[p] = "body" => DOMAIN keep[p] = Registered(p))
    /\ BlockedForever

C26_Witness ==
    /\ AllFinished /\ ~replay.failed
    /\ \A p \in Group : replay.quota[p] = MaxCalls
    /\ \A p \in Group : ret[p].op = "get_metric" /\ ret[p].out = "ok"
    /\ \E p \in Group : ret[p].obs.res["a"] = NProcs /\ elem[p]["a"].value = 1

\* A run whose CheckpointCallback saves every k epochs and every m batches and
\* nothing else has ended.
PeriodicRunEnded ==
    /\ trainer.at = "ended"
    /\ trainer.cfg.k >= 1 /\ trainer.cfg.m >= 1 /\ trainer.cfg.onExc = ""

C28_ExceptionFolder ==
    /\ [](\/ trainer.cfg.raiseAt = 0
          \/ trainer.epoch < trainer.cfg.raiseAt
          \/ trainer.at = "raised" /\ trainer.epoch = trainer.cfg.raiseAt
                /\ trainer.raised = "NotImplementedError")
    /\ [][trainer.at = "raised" => trainer' = trainer]_vars
    /\ []((trainer.at = "raised" /\ trainer.cfg.k = 0 /\ trainer.cfg.m = 0
            /\ trainer.cfg.onExc = trainer.raised) =>
            /\ trainer.folders =
                  {ExceptionFolder(trainer.epoch, trainer.batch, trainer.raised)}
            /\ trainer.batch = trainer.epoch * trainer.cfg.B
            /\ (trainer.cfg.E = 10 /\ trainer.cfg.raiseAt = 4 /\ world = 1) =>
                  trainer.folders = {ExceptionFolder(4, 100, "NotImplementedError")}
            /\ (trainer.cfg.E = 10 /\ trainer.cfg.raiseAt = 4 /\ world = 2) =>
                  trainer.folders = {ExceptionFolder(4, 52, "NotImplementedError")})

C28_Witness ==
    /\ trainer.at = "raised" /\ world = 2
    /\ trainer.cfg = Run(10, 13, 0, 0, "NotImplementedError", 4)
    /\ trainer.folders = {ExceptionFolder(4, 52, "NotImplementedError")}

\* What holds of a locked Metric in every step: it stays locked whatever the
\* operation (reset(), get_metric(), set_auto_aggregate_when_get_metric(), to(),
\* register_element, an assignment); assigning anything but its Element to a
\* registered name raises RuntimeError; get_metric() on a Metric that is not
\* updated raises AssertionError; register_element with a fresh name succeeds
\* and binds the name to its Element.
LockedStep(p) ==
    locked[p] =>
        /\ locked'[p]
        /\ (ret'[p].op = "setattr" /\ ret'[p] # ret[p]
            /\ ret'[p].obs.key \in Registered(p)
            /\ ret'[p].obs.value # ElemRef(ret'[p].obs.key)) =>
                ret'[p].out = "RuntimeError" /\ attr'[p] = attr[p]
        /\ (ret'[p].op = "get_metric" /\ ret'[p] # ret[p] /\ pc[p] = "idle" /\ ~updated[p]) =>
                ret'[p].out = "AssertionError"
        /\ (ret'[p].op = "register_element" /\ ret'[p] # ret[p]
            /\ ret'[p].obs.name \notin Registered(p)) =>
                /\ ret'[p].out = "ok"
                /\ ret'[p].obs.name \in Registered(p)'
                /\ attr'[p][ret'[p].obs.name] = ElemRef(ret'[p].obs.name)

\* C31, as stated: once update() has been called the Metric is locked, and a
\* locked Metric stays locked and behaves as above.
C31_LockedOnceUpdateCalled ==
    [][\A p \in Group :
          /\ UpdateEnded(p) => locked'[p]
          /\ LockedStep(p)
      ]_vars

\* C31, amended: the same, once an update() has passed backend resolution (an
\* update() that raises ConflictingBackendError locks nothing).
C31_LockedOncePastResolution ==
    [][\A p \in Group :
          /\ (UpdateEnded(p) /\ ret'[p].out # "ConflictingBackendError") => locked'[p]
          /\ (UpdateEnded(p) /\ ret'[p].out = "ConflictingBackendError") =>
                locked'[p] = locked[p]
          /\ LockedStep(p)
      ]_vars

C31_Witness ==
    \E p \in Group :
        /\ locked[p] /\ ~updated[p] /\ lastCall[p] = "reset"
        /\ order[p] = <<"a", "b">>
        /\ elem[p]["a"].device = "cuda:0" /\ elem[p]["b"].device = "cpu"
        /\ ret[p] = Outcome("setattr", "RuntimeError", [key |-> "b", value |-> Num(0)])
        /\ attr[p]["b"] = ElemRef("b")

\* The Elements the loop of sync() has been through on p, the one it is at
\* included once its snapshot is taken.
Processed(p) ==
    {order[p][i] : i \in 1..(IF pc[p] = "sync" THEN idx[p] - 1
                             ELSE IF pc[p] = "wait" THEN idx[p]
                             ELSE Len(order[p]))}

\* C32: inside get_metric() with aggregation enabled the loop goes through the
\* Elements in registration order; the snapshot of an Element is taken in the
\* step in which it enters its own collective, and holds the value it enters
\* with; when the body starts every Element has its snapshot and has been
\* aggregated; values are restored only in the step in which the body returns;
\* processes that registered the same names in the same order wait in the
\* collective of the same Element.
C32_SyncOrder ==
    /\ [](\A p \in Group :
            /\ pc[p] \in {"sync", "wait", "body"} => DOMAIN keep[p] = Processed(p)
            /\ pc[p] = "wait" =>
                  keep[p][order[p][idx[p]]] = elem[p][order[p][idx[p]]].value
            /\ pc[p] = "body" => idx[p] = Len(order[p]) + 1)
    /\ [][\A p \in Group :
            /\ (pc[p] = "sync" /\ pc'[p] # "sync") =>
                  /\ pc'[p] = "wait" /\ idx'[p] = idx[p]
                  /\ keep'[p] = keep[p] @@ (order[p][idx[p]] :> elem[p][order[p][idx[p]]].value)
                  /\ elem'[p] = elem[p]
            /\ (pc[p] = "wait" /\ pc'[p] # "wait") =>
                  /\ idx'[p] = idx[p] + 1 /\ keep'[p] = keep[p]
                  /\ pc'[p] = IF idx[p] < Len(order[p]) THEN "sync" ELSE "body"
                  /\ \A n \in Registered(p) \ {order[p][idx[p]]} : elem'[p][n] = elem[p][n]
            /\ (pc[p] = "body" /\ pc'[p] = "idle") =>
                  IF ret'[p].out = "ok"
                  THEN \A n \in Registered(p) : elem'[p][n].value = keep[p][n]
                  ELSE elem'[p] = elem[p]
         ]_vars
    /\ []((\A p, q \in Group : order[p] = order[q]) => SameElement)

C32_Witness ==
    /\ pc[1] = "wait" /\ idx[1] = 2 /\ pc[2] = "sync" /\ idx[2] = 2
    /\ order[1] = <<"a", "b">> /\ order[2] = <<"a", "b">>
    /\ elem[1]["a"].value = 2 /\ keep[1]["a"] = 1 /\ keep[1]["b"] = 1
    /\ DOMAIN keep[2] = {"a"}
====
